---- MODULE Spec2Model ----
(***************************************************************************)
(* Attribute/macro resolution of gix-attributes: the name registry         *)
(* (MetadataCollection) and the per-query resolution session (Outcome),    *)
(* modelled from gix-attributes/src/search/outcome.rs.                     *)
(*                                                                         *)
(* Encoding.  Option<T>: None is the empty sequence, Some(x) is <<x>>.     *)
(* AttributeId(n) is the natural n (0-based, as in the source); the slot   *)
(* of id n is matches_by_id[n + 1].  A Vec is a sequence, last element on  *)
(* top for push/pop.  A HashMap is a function on its key set.              *)
(***************************************************************************)
EXTENDS Integers, Sequences, FiniteSets, TLC

VARIABLES
    name_to_meta,   \* MetadataCollection.name_to_meta: name -> Metadata
    out,            \* the Outcome under test
    fresh,          \* a second Outcome, rebuilt from Outcome::default() at every
                    \* initialize/reset of `out` and fed the same calls afterwards
    last,           \* the call on `out` that has just returned: its arguments and
                    \* what it returned ("idle" between two calls)
    first_offer,    \* history of the query on `out`: per handle, the provenance of
                    \* the first fill_attributes call since the last reset that
                    \* named it while its slot had no match
    replay,         \* history of the query on `out`: it began with a reset() that
                    \* found entries of an earlier call on the work stack
    workers,        \* the sessions of concurrent workers, each with the position
                    \* of the worker inside its current call (empty where a
                    \* single session is checked)
    permission      \* what SchemePermission::from_config returned for the
                    \* configuration it was given last

vars == <<name_to_meta, out, fresh, last, first_offer, replay, workers, permission>>

----------------------------------------------------------------------------
(* Bounds of the model *)

\* longest list of assignments one pattern line passes to fill_attributes
MaxAttrs == 2
\* fuel of the fill_attributes loop: a call that needs more iterations is
\* reported as not terminated
MaxIterations == 12
\* fill_attributes is called while at most this many entries of earlier calls
\* are left on the work stack
MaxLeftover == 1

----------------------------------------------------------------------------
(* Option<T> *)

None == <<>>
Some(x) == <<x>>
is_some(o) == o # <<>>
is_none(o) == o = <<>>
unwrap(o) == o[1]

(* Sequence helpers: Iterator::map / Iterator::filter over a Vec *)
MapSeq(s, F(_)) == [i \in 1..Len(s) |-> F(s[i])]
Range(s) == {s[i] : i \in 1..Len(s)}
SeqsUpTo(S, n) == UNION {[1..k -> S] : k \in 0..n}

----------------------------------------------------------------------------
(* Data model *)

\* crate::Assignment { name, state }
Assignment(name, state) == [name |-> name, state |-> state]

\* TrackedAssignment { id, inner }; a parsed assignment carries the default id
\* until assign_order_to_attributes gives it one
TrackedAssignment(id, inner) == [id |-> id, inner |-> inner]
Parsed(name, state) == TrackedAssignment(0, Assignment(name, state))

\* Metadata { id, macro_attributes }
Metadata(id, macro_attributes) == [id |-> id, macro_attributes |-> macro_attributes]

\* MatchKind
KindAttribute(macro_id) == [tag |-> "Attribute", macro_id |-> macro_id]
KindMacro(parent_macro_id) == [tag |-> "Macro", parent_macro_id |-> parent_macro_id]

\* MatchKind::source_id
source_id(kind) ==
    IF kind.tag = "Attribute" THEN kind.macro_id ELSE kind.parent_macro_id

\* Match { pattern, assignment, kind, location: MatchLocation { source, sequence_number } }
Match(pattern, assignment, kind, source, sequence_number) ==
    [pattern |-> pattern, assignment |-> assignment, kind |-> kind,
     location |-> [source |-> source, sequence_number |-> sequence_number]]

\* one element of Outcome.matches_by_id: Slot { r#match, macro_attributes }
Slot(match, macro_attributes) == [match |-> match, macro_attributes |-> macro_attributes]
DefaultSlot == Slot(None, <<>>)

\* Outcome::default()
DefaultOutcome ==
    [matches_by_id |-> <<>>, attrs_stack |-> <<>>, selected |-> <<>>, remaining |-> None]

----------------------------------------------------------------------------
(* MetadataCollection *)

\* MetadataCollection::default()
EmptyCollection == [n \in {} |-> Metadata(0, <<>>)]

\* HashMap::insert of a key that is absent
Insert(collection, name, meta) ==
    [n \in DOMAIN collection \cup {name} |->
        IF n = name THEN meta ELSE collection[n]]

\* an id_for_attribute that allocates a handle for every call
id_for_attribute_always_new(collection, name) ==
    LET order == Cardinality(DOMAIN collection)
    IN  [collection |-> Insert(collection, name, Metadata(order, <<>>)), id |-> order]

\* id_for_attribute: [collection, id]
id_for_attribute(collection, name) ==
    IF name \in DOMAIN collection
    THEN [collection |-> collection, id |-> collection[name].id]
    ELSE LET order == Cardinality(DOMAIN collection)
         IN  [collection |-> Insert(collection, name, Metadata(order, <<>>)),
              id |-> order]

\* an assign_order_to_attributes that allocates a handle for every member
RECURSIVE assign_order_to_attributes_always_new(_, _)
assign_order_to_attributes_always_new(collection, attributes) ==
    IF attributes = <<>>
    THEN [collection |-> collection, attributes |-> <<>>]
    ELSE LET first == id_for_attribute_always_new(collection,
                                                  Head(attributes).inner.name)
             rest  == assign_order_to_attributes_always_new(first.collection,
                                                            Tail(attributes))
         IN  [collection |-> rest.collection,
              attributes |-> <<[Head(attributes) EXCEPT !.id = first.id]>>
                                \o rest.attributes]

\* assign_order_to_attributes: [collection, attributes], the attributes with
\* their id fields overwritten in list order
RECURSIVE assign_order_to_attributes(_, _)
assign_order_to_attributes(collection, attributes) ==
    IF attributes = <<>>
    THEN [collection |-> collection, attributes |-> <<>>]
    ELSE LET first == id_for_attribute(collection, Head(attributes).inner.name)
             rest  == assign_order_to_attributes(first.collection, Tail(attributes))
         IN  [collection |-> rest.collection,
              attributes |-> <<[Head(attributes) EXCEPT !.id = first.id]>>
                                \o rest.attributes]

\* an id_for_macro that keeps the members of the first declaration
id_for_macro_first_wins(collection, name, attrs) ==
    LET known    == name \in DOMAIN collection
        order    == IF known THEN collection[name].id
                    ELSE Cardinality(DOMAIN collection)
        inserted == IF known THEN collection
                    ELSE Insert(collection, name, Metadata(order, <<>>))
        assigned == assign_order_to_attributes(inserted, attrs)
    IN  [collection |-> IF known /\ collection[name].macro_attributes # <<>>
                        THEN assigned.collection
                        ELSE [assigned.collection EXCEPT
                                ![name].macro_attributes = assigned.attributes],
         id |-> order,
         attrs |-> assigned.attributes]

\* id_for_macro: [collection, id, attrs]
id_for_macro(collection, name, attrs) ==
    LET known    == name \in DOMAIN collection
        order    == IF known THEN collection[name].id
                    ELSE Cardinality(DOMAIN collection)
        inserted == IF known THEN collection
                    ELSE Insert(collection, name, Metadata(order, <<>>))
        assigned == assign_order_to_attributes(inserted, attrs)
    IN  [collection |-> [assigned.collection EXCEPT
                            ![name].macro_attributes = assigned.attributes],
         id |-> order,
         attrs |-> assigned.attributes]

\* one gix_glob::search::pattern::Mapping of a List<Attributes>: the pattern
\* text and Value::Assignments(..) or Value::MacroAssignments { id, assignments }
PlainLine(text, assignments) ==
    [pattern |-> text, value |-> [tag |-> "Assignments", id |-> 0,
                                  assignments |-> assignments]]
MacroLine(name, assignments) ==
    [pattern |-> name, value |-> [tag |-> "MacroAssignments", id |-> 0,
                                  assignments |-> assignments]]

\* an update_from_list that does not store the handle of a macro line
RECURSIVE update_from_list_unnumbered(_, _)
update_from_list_unnumbered(collection, list) ==
    IF list = <<>>
    THEN [collection |-> collection, list |-> <<>>]
    ELSE LET p == Head(list)
             step ==
                IF p.value.tag = "MacroAssignments"
                THEN LET r == id_for_macro(collection, p.pattern, p.value.assignments)
                     IN  [collection |-> r.collection,
                          line |-> [p EXCEPT !.value.assignments = r.attrs]]
                ELSE LET r == assign_order_to_attributes(collection, p.value.assignments)
                     IN  [collection |-> r.collection,
                          line |-> [p EXCEPT !.value.assignments = r.attributes]]
             rest == update_from_list_unnumbered(step.collection, Tail(list))
         IN  [collection |-> rest.collection, list |-> <<step.line>> \o rest.list]

\* update_from_list: [collection, list]
RECURSIVE update_from_list(_, _)
update_from_list(collection, list) ==
    IF list = <<>>
    THEN [collection |-> collection, list |-> <<>>]
    ELSE LET p == Head(list)
             step ==
                IF p.value.tag = "MacroAssignments"
                THEN LET r == id_for_macro(collection, p.pattern, p.value.assignments)
                     IN  [collection |-> r.collection,
                          line |-> [p EXCEPT !.value.id = r.id,
                                             !.value.assignments = r.attrs]]
                ELSE LET r == assign_order_to_attributes(collection, p.value.assignments)
                     IN  [collection |-> r.collection,
                          line |-> [p EXCEPT !.value.assignments = r.attributes]]
             rest == update_from_list(step.collection, Tail(list))
         IN  [collection |-> rest.collection, list |-> <<step.line>> \o rest.list]

\* MetadataCollection::iter, as the set of (name, meta) pairs
collection_iter(collection) == {<<n, collection[n]>> : n \in DOMAIN collection}


----------------------------------------------------------------------------
(* Outcome: initialization *)

\* a resize that adds no slot
resize_never(v, n) == v

\* Vec::resize(n, Default::default())
resize(v, n) ==
    [i \in 1..n |-> IF i <= Len(v) THEN v[i] ELSE DefaultSlot]

\* a reset_remaining that sets no countdown
reset_remaining_unset(o) == o

\* reset_remaining
reset_remaining(o) ==
    [o EXCEPT !.remaining =
        Some(IF o.selected = <<>>
             THEN Len(o.matches_by_id)
             ELSE Cardinality({i \in DOMAIN o.selected : is_some(o.selected[i].id)}))]

\* a reset that leaves the matches as they are
reset_keeping_matches(o) ==
    reset_remaining([o EXCEPT !.attrs_stack = <<>>])

\* a reset that leaves the work stack as it is
reset_keeping_stack(o) ==
    reset_remaining(
        [o EXCEPT !.matches_by_id = [i \in DOMAIN @ |-> [@[i] EXCEPT !.match = None]]])

\* reset
reset(o) ==
    reset_remaining(
        [o EXCEPT !.matches_by_id = [i \in DOMAIN @ |-> [@[i] EXCEPT !.match = None]],
                  !.attrs_stack = <<>>])

\* an initialize that forgets the selection
initialize_clearing_selection(o, collection) ==
    reset([o EXCEPT !.matches_by_id =
                        [i \in 1..Cardinality(DOMAIN collection) |->
                            IF i <= Len(o.matches_by_id) THEN o.matches_by_id[i]
                            ELSE DefaultSlot],
                    !.selected = <<>>])

\* initialize
initialize(o, collection) ==
    LET global_num_attrs == Cardinality(DOMAIN collection)
        resized == resize(o.matches_by_id, global_num_attrs)
        macros  == {p \in collection_iter(collection) : p[2].macro_attributes # <<>>}
        filled  == [i \in DOMAIN resized |->
                      IF \E p \in macros : p[2].id = i - 1
                      THEN [resized[i] EXCEPT !.macro_attributes =
                              (CHOOSE p \in macros : p[2].id = i - 1)[2].macro_attributes]
                      ELSE resized[i]]
    IN  reset(IF Len(o.matches_by_id) # global_num_attrs
              THEN [o EXCEPT !.matches_by_id = filled]
              ELSE o)

\* initialize_with_selection
initialize_with_selection(o, collection, attribute_names) ==
    LET o1 == initialize(o, collection)
        selected == MapSeq(attribute_names,
                      LAMBDA name :
                        [name |-> name,
                         id |-> IF name \in DOMAIN collection
                                THEN Some(collection[name].id) ELSE None])
    IN  reset_remaining([o1 EXCEPT !.selected = selected])

----------------------------------------------------------------------------
(* Outcome: access *)

\* remaining (callers hold an initialized instance: the expect() passes)
remaining(o) == unwrap(o.remaining)

\* the expect() of remaining fails: the call aborts (a panic, no error value)
remaining_aborts(o) == is_none(o.remaining)

\* is_done
is_done(o) == remaining(o) = 0

\* a match_by_id that wraps a handle beyond the slots around
match_by_id_wrapping(o, id) ==
    IF o.matches_by_id = <<>> THEN None
    ELSE o.matches_by_id[(id % Len(o.matches_by_id)) + 1].match

\* match_by_id
match_by_id(o, id) ==
    IF id + 1 \in DOMAIN o.matches_by_id THEN o.matches_by_id[id + 1].match ELSE None

\* an iter that begins at the last slot
iter_descending(o) ==
    LET up == MapSeq(SelectSeq(o.matches_by_id, LAMBDA item : is_some(item.match)),
                     LAMBDA item : unwrap(item.match))
    IN  [i \in 1..Len(up) |-> up[Len(up) + 1 - i]]

\* iter, collected into a sequence
iter(o) ==
    MapSeq(SelectSeq(o.matches_by_id, LAMBDA item : is_some(item.match)),
           LAMBDA item : unwrap(item.match))

\* the text of the static DUMMY pattern of iter_selected
DummyPattern == ""

\* the names NameRef::try_from rejects (an attribute name does not begin with '-')
InvalidNames == {"-text"}

\* NameRef::try_from(name).unwrap_or_else(|_| NameRef("invalid"))
name_or_invalid(name) == IF name \in InvalidNames THEN "invalid" ELSE name

\* an iter_selected that yields nothing for a name the registry does not know
iter_selected_known_only(o) ==
    MapSeq(SelectSeq(o.selected, LAMBDA sel : is_some(sel.id)),
      LAMBDA sel :
        LET found == o.matches_by_id[unwrap(sel.id) + 1].match
        IN  IF is_some(found)
            THEN unwrap(found)
            ELSE Match("", Assignment(sel.name, "Unspecified"),
                       KindAttribute(None), None, 0))

\* iter_selected, collected into a sequence
iter_selected(o) ==
    MapSeq(o.selected,
      LAMBDA sel :
        LET found == IF is_some(sel.id)
                     THEN o.matches_by_id[unwrap(sel.id) + 1].match
                     ELSE None
        IN  IF is_some(found)
            THEN unwrap(found)
            ELSE Match(DummyPattern, Assignment(name_or_invalid(sel.name), "Unspecified"),
                       KindAttribute(None), None, 0))

----------------------------------------------------------------------------
(* Outcome: fill_attributes *)

\* the test both filter_map closures apply before pushing an entry
is_unresolved(o, id) == is_none(o.matches_by_id[id + 1].match)

\* the entries one extend() call pushes: the attributes whose slot has no
\* match yet, in their listed order, tagged with the parent macro
entries_to_push(o, attrs, parent) ==
    MapSeq(SelectSeq(attrs, LAMBDA attr : is_unresolved(o, attr.id)),
           LAMBDA attr : [id |-> attr.id, assignment |-> attr.inner, parent |-> parent])

\* a push of the attrs first listed on top
push_attrs_reversed(o, attrs) ==
    LET pushed == entries_to_push(o, attrs, None)
    IN  [o EXCEPT !.attrs_stack =
            @ \o [i \in 1..Len(pushed) |-> pushed[Len(pushed) + 1 - i]]]

\* self.attrs_stack.extend(attrs.filter_map(..)) with parent None
push_attrs(o, attrs) ==
    [o EXCEPT !.attrs_stack = @ \o entries_to_push(o, attrs, None)]

\* an expansion that does not link the members to the macro
push_macro_attributes_unlinked(o, id) ==
    [o EXCEPT !.attrs_stack =
        @ \o entries_to_push(o, o.matches_by_id[id + 1].macro_attributes, None)]

\* an expansion that links the members to the outermost macro
push_macro_attributes_flattened(o, id) ==
    LET link == source_id(unwrap(o.matches_by_id[id + 1].match).kind)
    IN  [o EXCEPT !.attrs_stack =
            @ \o entries_to_push(o, o.matches_by_id[id + 1].macro_attributes,
                                 IF is_some(link) THEN link ELSE Some(id))]

\* an expansion that gives the members the state the line gave the macro
push_macro_attributes_with_line_state(o, id) ==
    LET pushed == entries_to_push(o, o.matches_by_id[id + 1].macro_attributes, Some(id))
        state  == unwrap(o.matches_by_id[id + 1].match).assignment.state
    IN  [o EXCEPT !.attrs_stack =
            @ \o [i \in 1..Len(pushed) |->
                     [pushed[i] EXCEPT !.assignment.state = state]]]

\* an expansion that pushes the members last listed first
push_macro_attributes_reversed(o, id) ==
    LET pushed == entries_to_push(o, o.matches_by_id[id + 1].macro_attributes, Some(id))
    IN  [o EXCEPT !.attrs_stack =
            @ \o [i \in 1..Len(pushed) |-> pushed[Len(pushed) + 1 - i]]]

\* the extend() of the `if is_macro` branch: the snapshot of slot `id`, parent Some(id)
push_macro_attributes(o, id) ==
    [o EXCEPT !.attrs_stack =
        @ \o entries_to_push(o, o.matches_by_id[id + 1].macro_attributes, Some(id))]

\* a loop that skips no entry
skip_entry_never(o, id) == FALSE

\* `if slot.r#match.is_some() { continue; }`
skip_entry(o, id) == is_some(o.matches_by_id[id + 1].match)

\* a write that records every handle as a plain attribute
write_match_as_attribute(o, entry, pattern, source, sequence_number) ==
    [o EXCEPT !.matches_by_id[entry.id + 1].match =
        Some(Match(pattern, entry.assignment, KindAttribute(entry.parent),
                   source, sequence_number))]

\* the assignment to slot.r#match
write_match(o, entry, pattern, source, sequence_number) ==
    LET slot     == o.matches_by_id[entry.id + 1]
        is_macro == slot.macro_attributes # <<>>
    IN  [o EXCEPT !.matches_by_id[entry.id + 1].match =
            Some(Match(pattern, entry.assignment,
                       IF is_macro THEN KindMacro(entry.parent)
                                   ELSE KindAttribute(entry.parent),
                       source, sequence_number))]

\* a countdown that counts the handles outside the selection as well
is_counted_always(o, attr) == TRUE

\* the condition of reduce_and_check_if_done under which the countdown is decremented
is_counted(o, attr) ==
    \/ o.selected = <<>>
    \/ \E i \in DOMAIN o.selected :
          is_some(o.selected[i].id) /\ unwrap(o.selected[i].id) = attr

\* a countdown that is decremented for every handle written
reduce_every_handle(o, attr) ==
    LET o1 == [o EXCEPT !.remaining = Some(unwrap(@) - 1)]
    IN  [out |-> o1, done |-> unwrap(o1.remaining) = 0]

\* reduce_and_check_if_done: [out, done].  The countdown is a usize; a
\* decrement of 0 (an overflow abort in a checked build) shows as -1 here.
reduce_and_check_if_done(o, attr) ==
    LET o1 == IF is_counted(o, attr)
              THEN [o EXCEPT !.remaining = Some(unwrap(@) - 1)]
              ELSE o
    IN  [out |-> o1, done |-> is_done(o1)]

\* the `while let Some(..) = self.attrs_stack.pop()` loop.  st is
\* [out, ret, terminated, iterations, written]: the session, the value
\* returned, whether the loop ended within `fuel` iterations, the number of
\* entries popped and the handles written, in the order written.
RECURSIVE fill_loop(_, _, _, _, _)
fill_loop(st, pattern, source, sequence_number, fuel) ==
    LET o == st.out
    IN  IF o.attrs_stack = <<>>
        THEN [st EXCEPT !.ret = FALSE, !.terminated = TRUE]
        ELSE IF fuel = 0
        THEN [st EXCEPT !.ret = FALSE, !.terminated = FALSE]
        ELSE
          LET entry  == o.attrs_stack[Len(o.attrs_stack)]
              popped == [o EXCEPT !.attrs_stack = SubSeq(@, 1, Len(@) - 1)]
              id     == entry.id
              popst  == [st EXCEPT !.iterations = @ + 1]
          IN  IF skip_entry(popped, id)
              THEN fill_loop([popst EXCEPT !.out = popped],
                             pattern, source, sequence_number, fuel - 1)
              ELSE
                LET is_macro == popped.matches_by_id[id + 1].macro_attributes # <<>>
                    wrote    == write_match(popped, entry, pattern, source, sequence_number)
                    reduced  == reduce_and_check_if_done(wrote, id)
                    wrst     == [popst EXCEPT !.written = Append(@, id)]
                IN  IF reduced.done
                    THEN [wrst EXCEPT !.out = reduced.out, !.ret = TRUE,
                                      !.terminated = TRUE]
                    ELSE fill_loop(
                           [wrst EXCEPT !.out = IF is_macro
                                                THEN push_macro_attributes(reduced.out, id)
                                                ELSE reduced.out],
                           pattern, source, sequence_number, fuel - 1)

\* fill_attributes: [out, ret, terminated, iterations, written]
fill_attributes(o, attrs, pattern, source, sequence_number) ==
    fill_loop([out |-> push_attrs(o, attrs), ret |-> FALSE, terminated |-> FALSE,
               iterations |-> 0, written |-> <<>>],
              pattern, source, sequence_number, MaxIterations)

----------------------------------------------------------------------------
(* The programs checked: attribute files, pattern lines, selections *)

\* Parsed attribute files (gix_glob::search::pattern::List<Attributes>) the
\* registry is built from, one per run.
\* `*.txt text` and `[attr]binary -text -diff`
ScenarioFile ==
    << PlainLine("*.txt", <<Parsed("text", "Set")>>),
       MacroLine("binary", <<Parsed("text", "Unset"), Parsed("diff", "Unset")>>) >>
\* a macro with a macro member that shares a member with it
NestedFile ==
    << MacroLine("binary", <<Parsed("text", "Unset"), Parsed("diff", "Set")>>),
       MacroLine("diff", <<Parsed("text", "Set")>>) >>
\* two macros that list each other
MutualFile ==
    << MacroLine("binary", <<Parsed("diff", "Set")>>),
       MacroLine("diff", <<Parsed("binary", "Unset")>>) >>
\* a macro that lists itself, and one attribute twice
SelfFile ==
    << MacroLine("binary", <<Parsed("binary", "Set"), Parsed("text", "Set"),
                             Parsed("text", "Unset")>>) >>
AttributeFiles == {ScenarioFile, NestedFile, MutualFile, SelfFile}

\* the provenance of the pattern lines fed to a session: pattern text, source
\* path and sequence number
PatternLines ==
    { [pattern |-> "*.png", source |-> Some("a/.gitattributes"), sequence_number |-> 1],
      [pattern |-> "*", source |-> None, sequence_number |-> 2] }

\* the state a pattern line gives the attributes it names
LineStates == {"Set"}

\* the assignments a matching pattern line can carry: names of the registry
\* with the ids update_from_list gave them
LineAttrs(collection) ==
    {TrackedAssignment(collection[n].id, Assignment(n, s)) :
        n \in DOMAIN collection, s \in LineStates}
AttrLists(collection) == SeqsUpTo(LineAttrs(collection), MaxAttrs)

\* The selections a caller asks for ("eol" is in no attribute file, "-text" is
\* no attribute name): none, one plain attribute, one macro, an invalid name, a
\* repeated name, an unknown and a known name, two known names, and all names
\* of ScenarioFile.
Selections ==
    { <<>>, <<"text">>, <<"binary">>, <<"-text">>, <<"text", "text">>,
      <<"eol", "text">>, <<"binary", "text">>, <<"text", "diff", "binary">> }

\* the names of a selection, as initialize_with_selection received them
selected_names(o) == MapSeq(o.selected, LAMBDA sel : sel.name)

\* a new Outcome initialized against `collection` with the selection of `o`
FreshLike(o, collection) ==
    initialize_with_selection(DefaultOutcome, collection, selected_names(o))

\* the record of a call
Call(op) ==
    [op |-> op, attrs |-> <<>>, pattern |-> "", source |-> None, sequence_number |-> 0,
     names |-> <<>>, ret |-> FALSE, terminated |-> TRUE, iterations |-> 0,
     written |-> <<>>, items |-> <<>>, count |-> 0, fresh_ret |-> FALSE,
     id |-> 0, found |-> None, aborted |-> FALSE]

----------------------------------------------------------------------------
(* SchemePermission *)

\* git_url::Scheme, by its name: the variants allow() matches on
Schemes == {"file", "git", "ssh", "http", "https", "ext"}

\* impl TryFrom<Cow<BStr>> for Allow: [ok, allow] or [ok, value] for Err(value)
allow_try_from(v) ==
    CASE v = "never"  -> [ok |-> TRUE, allow |-> "Never"]
      [] v = "always" -> [ok |-> TRUE, allow |-> "Always"]
      [] v = "user"   -> [ok |-> TRUE, allow |-> "User"]
      [] OTHER        -> [ok |-> FALSE, value |-> v]

\* Allow::to_bool
to_bool(allow, user_allowed) ==
    CASE allow = "Always" -> TRUE
      [] allow = "Never"  -> FALSE
      [] allow = "User"   -> IF is_some(user_allowed) THEN unwrap(user_allowed) ELSE TRUE

\* no SchemePermission has been built
NoPermission == [result |-> "none"]

\* Err(init::Error::InvalidConfiguration { scheme, value })
InvalidConfiguration(config, scheme, value) ==
    [result |-> "err", config |-> config, scheme |-> scheme, value |-> value]

\* the `for (section, scheme) in it.filter_map(..)` loop of from_config over
\* the sections from position k on, with the map built so far: sections
\* whose subsection name is no scheme are filtered out, a section without
\* `allow` inserts nothing, a value that is no Allow ends the call
RECURSIVE allow_per_scheme_from(_, _, _)
allow_per_scheme_from(config, k, map) ==
    IF k > Len(config.sections)
    THEN [ok |-> TRUE, map |-> map]
    ELSE LET section == config.sections[k]
         IN  IF is_none(section.scheme) \/ is_none(section.allow)
             THEN allow_per_scheme_from(config, k + 1, map)
             ELSE LET parsed == allow_try_from(unwrap(section.allow))
                      scheme == unwrap(section.scheme)
                  IN  IF ~parsed.ok
                      THEN [ok |-> FALSE, scheme |-> scheme, value |-> parsed.value]
                      ELSE allow_per_scheme_from(config, k + 1,
                              [s \in DOMAIN map \cup {scheme} |->
                                  IF s = scheme THEN parsed.allow ELSE map[s]])

\* SchemePermission::from_config; config.general is what
\* string_filter("protocol", None, "allow") finds, config.sections are the
\* sections sections_by_name_and_filter("protocol") yields, each with the
\* scheme its subsection name parses to (if any) and its `allow` value (if any)
from_config(config) ==
    LET general == IF is_some(config.general)
                   THEN allow_try_from(unwrap(config.general))
                   ELSE [ok |-> TRUE]
    IN  IF ~general.ok
        THEN InvalidConfiguration(config, None, general.value)
        ELSE LET per == allow_per_scheme_from(config, 1, <<>>)
             IN  IF ~per.ok
                 THEN InvalidConfiguration(config, Some(per.scheme), per.value)
                 ELSE [result |-> "ok", config |-> config,
                       allow |-> IF is_some(config.general)
                                 THEN Some(general.allow) ELSE None,
                       allow_per_scheme |-> per.map,
                       user_allowed |-> None]

\* an allow that asks the general setting before the setting of the scheme
allow_general_first(p, scheme) ==
    LET setting == IF is_some(p.allow) THEN p.allow
                   ELSE IF scheme \in DOMAIN p.allow_per_scheme
                   THEN Some(p.allow_per_scheme[scheme])
                   ELSE None
    IN  IF is_none(setting)
        THEN scheme \in {"file", "git", "ssh", "http", "https"}
        ELSE to_bool(unwrap(setting), p.user_allowed)

\* SchemePermission::allow
allow(p, scheme) ==
    LET setting == IF scheme \in DOMAIN p.allow_per_scheme
                   THEN Some(p.allow_per_scheme[scheme])
                   ELSE p.allow
    IN  IF is_none(setting)
        THEN scheme \in {"file", "git", "ssh", "http", "https"}
        ELSE to_bool(unwrap(setting), p.user_allowed)

----------------------------------------------------------------------------
(* State machine *)

Init ==
    /\ name_to_meta \in {update_from_list(EmptyCollection, f).collection :
                            f \in AttributeFiles}
    /\ out = DefaultOutcome
    /\ fresh = DefaultOutcome
    /\ last = Call("idle")
    /\ first_offer = <<>>
    /\ replay = FALSE
    /\ workers = <<>>
    /\ permission = NoPermission

\* the caller is between two calls
Idle == last.op = "idle"

\* the history of a query that has just begun on session o
NoOffers(o) == [i \in DOMAIN o.matches_by_id |-> None]

\* the history after a call naming `attrs` with provenance `line` on session o
\* that returned `ret`
Offered(o, offers, attrs, line, ret) ==
    [i \in DOMAIN o.matches_by_id |->
        IF /\ is_none(offers[i])
           /\ is_none(o.matches_by_id[i].match)
           /\ \E k \in DOMAIN attrs : attrs[k].id = i - 1
        THEN Some([line |-> line, ret |-> ret])
        ELSE offers[i]]

\* out.initialize(&collection)
Initialize ==
    /\ Idle
    /\ out' = initialize(out, name_to_meta)
    /\ fresh' = FreshLike(out', name_to_meta)
    /\ last' = Call("initialize")
    /\ first_offer' = NoOffers(out')
    /\ replay' = FALSE
    /\ UNCHANGED <<name_to_meta, workers, permission>>

\* out.initialize_with_selection(&collection, names)
SelectCall(names) ==
    /\ Idle
    /\ out' = initialize_with_selection(out, name_to_meta, names)
    /\ fresh' = FreshLike(out', name_to_meta)
    /\ last' = [Call("initialize_with_selection") EXCEPT !.names = names]
    /\ first_offer' = NoOffers(out')
    /\ replay' = FALSE
    /\ UNCHANGED <<name_to_meta, workers, permission>>

InitializeWithSelection ==
    \E names \in Selections : SelectCall(names)

\* out.reset()
Reset ==
    /\ Idle
    /\ out' = reset(out)
    /\ fresh' = FreshLike(out', name_to_meta)
    /\ last' = [Call("reset") EXCEPT !.count = Len(out.attrs_stack)]
    /\ first_offer' = NoOffers(out')
    /\ replay' = (out.attrs_stack # <<>>)
    /\ UNCHANGED <<name_to_meta, workers, permission>>

\* out.fill_attributes(attrs.iter(), pattern, source, sequence_number) for a
\* pattern line whose assignments carry handles within the slots of the session
FillCall(attrs, line) ==
    /\ Idle
    /\ Len(out.attrs_stack) <= MaxLeftover
    /\ \A i \in DOMAIN attrs : attrs[i].id < Len(out.matches_by_id)
    /\ LET r == fill_attributes(out, attrs, line.pattern, line.source,
                                line.sequence_number)
           f == fill_attributes(fresh, attrs, line.pattern, line.source,
                                line.sequence_number)
       IN  /\ out' = r.out
           /\ fresh' = f.out
           /\ last' = [Call("fill_attributes") EXCEPT
                          !.attrs = attrs, !.pattern = line.pattern,
                          !.source = line.source,
                          !.sequence_number = line.sequence_number,
                          !.ret = r.ret, !.terminated = r.terminated,
                          !.iterations = r.iterations, !.written = r.written,
                          !.fresh_ret = f.ret]
           /\ first_offer' = Offered(out, first_offer, attrs, line, r.ret)
    /\ UNCHANGED <<name_to_meta, replay, workers, permission>>

FillAttributes ==
    \E attrs \in AttrLists(name_to_meta), line \in PatternLines :
        FillCall(attrs, line)

\* out.iter_selected().collect()
IterSelected ==
    /\ Idle
    /\ last' = [Call("iter_selected") EXCEPT !.items = iter_selected(out)]
    /\ UNCHANGED <<name_to_meta, out, fresh, first_offer, replay, workers, permission>>

\* out.remaining() and out.is_done(); the expect() of remaining aborts the
\* call when the countdown is None
Remaining ==
    /\ Idle
    /\ last' = IF remaining_aborts(out)
               THEN [Call("remaining") EXCEPT !.aborted = TRUE]
               ELSE [Call("remaining") EXCEPT !.count = remaining(out),
                                              !.ret = is_done(out)]
    /\ UNCHANGED <<name_to_meta, out, fresh, first_offer, replay, workers, permission>>

\* the caller has taken the result of the call and goes on
Continue ==
    /\ ~Idle
    /\ last' = Call("idle")
    /\ UNCHANGED <<name_to_meta, out, fresh, first_offer, replay, workers, permission>>

Next ==
    \/ Initialize
    \/ InitializeWithSelection
    \/ Reset
    \/ FillAttributes
    \/ IterSelected
    \/ Remaining
    \/ Continue

Spec == Init /\ [][Next]_vars

----------------------------------------------------------------------------
(* A session whose registry is changed between its queries *)

\* `[attr]binary diff` and `[attr]diff -text`: a macro inside a macro
ChainFile ==
    << MacroLine("binary", <<Parsed("diff", "Set")>>),
       MacroLine("diff", <<Parsed("text", "Unset")>>) >>
\* `[attr]binary text`: a macro declared again over a known name
RedeclareFile == << MacroLine("binary", <<Parsed("text", "Set")>>) >>
\* `*.c eol`: a new name
GrowFile == << PlainLine("*.c", <<Parsed("eol", "Set")>>) >>
LaterFiles == {RedeclareFile, GrowFile}

\* longest list of assignments of a pattern line fed to this session
GrowthMaxAttrs == 1
GrowthAttrLists(collection) == SeqsUpTo(LineAttrs(collection), GrowthMaxAttrs)

\* the selections asked of this session: a name the registry learns later
\* with a known name, and one macro
GrowthSelections == { <<"eol", "text">>, <<"binary">> }

GrowthInit ==
    /\ name_to_meta = update_from_list(EmptyCollection, ChainFile).collection
    /\ out = DefaultOutcome
    /\ fresh = DefaultOutcome
    /\ last = Call("idle")
    /\ first_offer = <<>>
    /\ replay = FALSE
    /\ workers = <<>>
    /\ permission = NoPermission

\* collection.update_from_list(&mut list) for a file read later
UpdateFromList ==
    \E list \in LaterFiles :
        /\ Idle
        /\ name_to_meta' = update_from_list(name_to_meta, list).collection
        /\ last' = Call("update_from_list")
        /\ UNCHANGED <<out, fresh, first_offer, replay, workers, permission>>

GrowthSelect ==
    \E names \in GrowthSelections : SelectCall(names)

\* the pattern line a list of assignments stands on: the lines that begin
\* with the first name of the registry are `*.png` lines of a/.gitattributes,
\* all others are the `*` line
GrowthLine(attrs) ==
    CHOOSE line \in PatternLines :
        line.sequence_number = IF attrs # <<>> /\ attrs[1].id = 0 THEN 1 ELSE 2

GrowthFill ==
    \E attrs \in GrowthAttrLists(name_to_meta) :
        FillCall(attrs, GrowthLine(attrs))

\* out.match_by_id(id) for a handle of the registry, or the next one
MatchById ==
    \E id \in 0..Cardinality(DOMAIN name_to_meta) :
        /\ Idle
        /\ last' = [Call("match_by_id") EXCEPT !.id = id, !.found = match_by_id(out, id)]
        /\ UNCHANGED <<name_to_meta, out, fresh, first_offer, replay, workers, permission>>

\* out.iter().collect()
Iter ==
    /\ Idle
    /\ last' = [Call("iter") EXCEPT !.items = iter(out)]
    /\ UNCHANGED <<name_to_meta, out, fresh, first_offer, replay, workers, permission>>

GrowthNext ==
    \/ UpdateFromList
    \/ Initialize
    \/ GrowthSelect
    \/ Reset
    \/ GrowthFill
    \/ MatchById
    \/ Iter
    \/ Remaining
    \/ Continue

GrowthSpec == GrowthInit /\ [][GrowthNext]_vars

----------------------------------------------------------------------------
(* The registry during setup *)

\* the names setup declares one at a time, and the longest member list
RegistryNames == {"text", "binary"}
MaxMembers == 2
MemberLists ==
    SeqsUpTo({Parsed(n, st) : n \in RegistryNames, st \in LineStates}, MaxMembers)

\* the attribute files setup reads
SetupFiles == {ScenarioFile, MutualFile}

RegistryInit ==
    /\ name_to_meta = EmptyCollection
    /\ out = DefaultOutcome
    /\ fresh = DefaultOutcome
    /\ last = Call("idle")
    /\ first_offer = <<>>
    /\ replay = FALSE
    /\ workers = <<>>
    /\ permission = NoPermission

\* collection.id_for_attribute(name); `count` keeps the size before the call
IdForAttribute ==
    \E name \in RegistryNames :
        /\ Idle
        /\ LET r == id_for_attribute(name_to_meta, name)
           IN  /\ name_to_meta' = r.collection
               /\ last' = [Call("id_for_attribute") EXCEPT
                              !.names = <<name>>, !.id = r.id,
                              !.count = Cardinality(DOMAIN name_to_meta)]
        /\ UNCHANGED <<out, fresh, first_offer, replay, workers, permission>>

\* collection.id_for_macro(name, &mut attrs); `items` keeps attrs after the call
IdForMacro ==
    \E name \in RegistryNames, attrs \in MemberLists :
        /\ Idle
        /\ LET r == id_for_macro(name_to_meta, name, attrs)
           IN  /\ name_to_meta' = r.collection
               /\ last' = [Call("id_for_macro") EXCEPT
                              !.names = <<name>>, !.attrs = attrs, !.id = r.id,
                              !.items = r.attrs,
                              !.count = Cardinality(DOMAIN name_to_meta)]
        /\ UNCHANGED <<out, fresh, first_offer, replay, workers, permission>>

\* collection.assign_order_to_attributes(&mut attributes)
AssignOrderToAttributes ==
    \E attrs \in MemberLists :
        /\ Idle
        /\ LET r == assign_order_to_attributes(name_to_meta, attrs)
           IN  /\ name_to_meta' = r.collection
               /\ last' = [Call("assign_order_to_attributes") EXCEPT
                              !.attrs = attrs, !.items = r.attributes,
                              !.count = Cardinality(DOMAIN name_to_meta)]
        /\ UNCHANGED <<out, fresh, first_offer, replay, workers, permission>>

\* collection.update_from_list(&mut list) for an attribute file
SetupFromList ==
    \E list \in SetupFiles :
        /\ Idle
        /\ LET r == update_from_list(name_to_meta, list)
           IN  /\ name_to_meta' = r.collection
               /\ last' = [Call("update_from_list") EXCEPT
                              !.items = r.list,
                              !.count = Cardinality(DOMAIN name_to_meta)]
        /\ UNCHANGED <<out, fresh, first_offer, replay, workers, permission>>

RegistryNext ==
    \/ IdForAttribute
    \/ IdForMacro
    \/ AssignOrderToAttributes
    \/ SetupFromList
    \/ Continue

RegistrySpec == RegistryInit /\ [][RegistryNext]_vars

----------------------------------------------------------------------------
(* Concurrent sessions: the calls of a session, statement by statement *)

\* the branch of initialize taken when the slot count differs from the
\* registry size: the resize() of the slots
initialize_resize(o, collection) ==
    [o EXCEPT !.matches_by_id = resize(@, Cardinality(DOMAIN collection))]

\* the `for (order, macro_attributes) in collection.iter().filter_map(..)` loop
initialize_copy_macros(o, collection) ==
    [o EXCEPT !.matches_by_id =
        [i \in DOMAIN @ |->
            LET metas == {p[2] : p \in collection_iter(collection)}
                macro == {m \in metas : m.id = i - 1 /\ m.macro_attributes # <<>>}
            IN  IF macro # {}
                THEN [@[i] EXCEPT !.macro_attributes =
                        (CHOOSE m \in macro : TRUE).macro_attributes]
                ELSE @[i]]]

\* the statements of initialize_with_selection after self.initialize()
select_names(o, collection, attribute_names) ==
    reset_remaining(
        [o EXCEPT !.selected =
            [k \in DOMAIN attribute_names |->
                [name |-> attribute_names[k],
                 id |-> IF attribute_names[k] \in DOMAIN collection
                        THEN Some(collection[attribute_names[k]].id) ELSE None]]])

\* one evaluation of `while let Some(..) = self.attrs_stack.pop()` and its
\* body: [out, running, ret]; `running` is false once the call returns `ret`
loop_iteration(o, pattern, source, sequence_number) ==
    IF o.attrs_stack = <<>>
    THEN [out |-> o, running |-> FALSE, ret |-> FALSE]
    ELSE LET entry  == o.attrs_stack[Len(o.attrs_stack)]
             popped == [o EXCEPT !.attrs_stack = SubSeq(@, 1, Len(@) - 1)]
             id     == entry.id
         IN  IF skip_entry(popped, id)
             THEN [out |-> popped, running |-> TRUE, ret |-> FALSE]
             ELSE LET is_macro == popped.matches_by_id[id + 1].macro_attributes # <<>>
                      wrote    == write_match(popped, entry, pattern, source,
                                              sequence_number)
                      reduced  == reduce_and_check_if_done(wrote, id)
                  IN  IF reduced.done
                      THEN [out |-> reduced.out, running |-> FALSE, ret |-> TRUE]
                      ELSE [out |-> IF is_macro
                                    THEN push_macro_attributes(reduced.out, id)
                                    ELSE reduced.out,
                            running |-> TRUE, ret |-> FALSE]

\* the workers, one session each
Workers == {"a", "b"}

\* the attribute file the shared registry is built from, the selections and
\* the pattern line the workers use
PairFiles == {NestedFile}
PairSelections == { <<"binary", "text">> }
PairMaxAttrs == 1
PairAttrLists(collection) == SeqsUpTo(LineAttrs(collection), PairMaxAttrs)
PairLine == [pattern |-> "*", source |-> None, sequence_number |-> 2]

\* what a call returned: nothing yet, a bool, or the abort of expect()
NoResult == [value |-> FALSE, aborted |-> FALSE]

\* a worker: its session, where it is in its current call (`pc`), the
\* arguments of that call, the value its last call returned, and the session
\* and return value its calls give when each runs from start to end at once
NewWorker ==
    [session |-> DefaultOutcome, pc |-> "idle", call |-> Call("idle"),
     ret |-> NoResult, alone |-> DefaultOutcome, alone_ret |-> NoResult]

PairInit ==
    /\ name_to_meta \in {update_from_list(EmptyCollection, f).collection :
                            f \in PairFiles}
    /\ out = DefaultOutcome
    /\ fresh = DefaultOutcome
    /\ last = Call("idle")
    /\ first_offer = <<>>
    /\ replay = FALSE
    /\ workers = [w \in Workers |-> NewWorker]
    /\ permission = NoPermission

\* workers that share one work stack
Move_sharing_stack(w, next) ==
    /\ workers' = [v \in Workers |->
                      IF v = w THEN next
                      ELSE [workers[v] EXCEPT
                              !.session.attrs_stack = next.session.attrs_stack]]
    /\ UNCHANGED <<name_to_meta, out, fresh, last, first_offer, replay, permission>>

\* worker w moves to `next`: a call writes the fields of its own session only
Move(w, next) ==
    /\ workers' = [workers EXCEPT ![w] = next]
    /\ UNCHANGED <<name_to_meta, out, fresh, last, first_offer, replay, permission>>

\* w enters initialize (names = <<>>) or initialize_with_selection and
\* evaluates `self.matches_by_id.len() != collection.name_to_meta.len()`
BeginInitialize ==
    \E w \in Workers, names \in PairSelections \cup {<<>>} :
        LET me == workers[w]
            op == IF names = <<>> THEN "initialize" ELSE "initialize_with_selection"
            differs == Len(me.session.matches_by_id) # Cardinality(DOMAIN name_to_meta)
        IN  /\ me.pc = "idle"
            /\ Move(w, [me EXCEPT
                    !.pc = IF differs THEN "resize" ELSE "reset",
                    !.call = [Call(op) EXCEPT !.names = names],
                    !.alone = IF names = <<>>
                              THEN initialize(@, name_to_meta)
                              ELSE initialize_with_selection(@, name_to_meta, names)])

\* self.matches_by_id.resize(global_num_attrs, Default::default())
ResizeStep ==
    \E w \in Workers :
        LET me == workers[w]
        IN  /\ me.pc = "resize"
            /\ Move(w, [me EXCEPT !.pc = "copy",
                                  !.session = initialize_resize(@, name_to_meta)])

\* the loop over collection.iter()
CopyStep ==
    \E w \in Workers :
        LET me == workers[w]
        IN  /\ me.pc = "copy"
            /\ Move(w, [me EXCEPT !.pc = "reset",
                                  !.session = initialize_copy_macros(@, name_to_meta)])

\* the self.reset() that ends initialize
ResetStep ==
    \E w \in Workers :
        LET me == workers[w]
        IN  /\ me.pc = "reset"
            /\ Move(w, [me EXCEPT
                    !.pc = IF me.call.op = "initialize_with_selection"
                           THEN "select" ELSE "idle",
                    !.session = reset(@)])

\* self.selected.clear(); self.selected.extend(..); self.reset_remaining()
SelectStep ==
    \E w \in Workers :
        LET me == workers[w]
        IN  /\ me.pc = "select"
            /\ Move(w, [me EXCEPT
                    !.pc = "idle",
                    !.session = select_names(@, name_to_meta, me.call.names)])

\* w calls reset()
PairReset ==
    \E w \in Workers :
        LET me == workers[w]
        IN  /\ me.pc = "idle"
            /\ Len(me.session.matches_by_id) = Cardinality(DOMAIN name_to_meta)
            /\ Move(w, [me EXCEPT !.call = Call("reset"),
                                  !.session = reset(@), !.alone = reset(@)])

\* w calls is_done()
PairIsDone ==
    \E w \in Workers :
        LET me == workers[w]
            result(o) == IF remaining_aborts(o)
                         THEN [value |-> FALSE, aborted |-> TRUE]
                         ELSE [value |-> is_done(o), aborted |-> FALSE]
        IN  /\ me.pc = "idle"
            /\ me.call.op # "is_done"
            /\ Move(w, [me EXCEPT !.call = Call("is_done"),
                                  !.ret = result(me.session),
                                  !.alone_ret = result(me.alone)])

\* w enters fill_attributes: self.attrs_stack.extend(..)
BeginFill ==
    \E w \in Workers :
        LET me == workers[w]
        IN  /\ me.pc = "idle"
            /\ Len(me.session.attrs_stack) <= MaxLeftover
            /\ \E attrs \in PairAttrLists(name_to_meta) :
                  /\ \A i \in DOMAIN attrs :
                        attrs[i].id < Len(me.session.matches_by_id)
                  /\ LET r == fill_attributes(me.alone, attrs, PairLine.pattern,
                                              PairLine.source,
                                              PairLine.sequence_number)
                     IN  Move(w, [me EXCEPT
                            !.pc = "loop",
                            !.call = Call("fill_attributes"),
                            !.session = push_attrs(@, attrs),
                            !.alone = r.out,
                            !.alone_ret = [value |-> r.ret, aborted |-> FALSE]])

\* w evaluates the loop once
LoopStep ==
    \E w \in Workers :
        LET me == workers[w]
            r  == loop_iteration(me.session, PairLine.pattern, PairLine.source,
                                 PairLine.sequence_number)
        IN  /\ me.pc = "loop"
            /\ Move(w, [me EXCEPT
                    !.pc = IF r.running THEN "loop" ELSE "idle",
                    !.session = r.out,
                    !.ret = IF r.running THEN @
                            ELSE [value |-> r.ret, aborted |-> FALSE]])

PairNext ==
    \/ BeginInitialize
    \/ ResizeStep
    \/ CopyStep
    \/ ResetStep
    \/ SelectStep
    \/ PairReset
    \/ PairIsDone
    \/ BeginFill
    \/ LoopStep

PairSpec == PairInit /\ [][PairNext]_vars

----------------------------------------------------------------------------
(* A query for one member of a macro *)

\* the selections of a caller that asks for the member a macro lists last, or
\* for the member it lists first
MemberSelections == { <<"diff">>, <<"text">> }

\* a macro with two members, and a macro that lists one member twice
MemberFiles == {ScenarioFile, SelfFile}

MemberInit ==
    /\ name_to_meta \in {update_from_list(EmptyCollection, f).collection :
                            f \in MemberFiles}
    /\ out = DefaultOutcome
    /\ fresh = DefaultOutcome
    /\ last = Call("idle")
    /\ first_offer = <<>>
    /\ replay = FALSE
    /\ workers = <<>>
    /\ permission = NoPermission

SelectMember ==
    \E names \in MemberSelections : SelectCall(names)

\* the pattern lines of this query: up to MemberMaxAttrs assignments that set
\* a name of the registry or unset `text`; the lines of one assignment are
\* `*.png` lines of a/.gitattributes, all others are the `*` line
MemberMaxAttrs == 3
MemberLineAttrs(collection) ==
    LineAttrs(collection)
    \cup {TrackedAssignment(collection[n].id, Assignment(n, "Unset")) :
             n \in DOMAIN collection \cap {"text"}}
MemberAttrLists(collection) == SeqsUpTo(MemberLineAttrs(collection), MemberMaxAttrs)
MemberLine(attrs) ==
    CHOOSE line \in PatternLines :
        line.sequence_number = IF Len(attrs) = 1 THEN 1 ELSE 2

MemberFill ==
    \E attrs \in MemberAttrLists(name_to_meta) :
        FillCall(attrs, MemberLine(attrs))

MemberNext ==
    \/ SelectMember
    \/ Reset
    \/ MemberFill
    \/ Remaining
    \/ Continue

MemberSpec == MemberInit /\ [][MemberNext]_vars

----------------------------------------------------------------------------
(* A query whose lines give a macro any state *)

\* gix_attributes::StateRef: Set, Unset, Value(_), Unspecified
AssignedStates == {"Set", "Unset", "Value", "Unspecified"}

\* the lines of this query: no assignment, or one assignment of any state to
\* a name of the registry
StateAttrLists(collection) ==
    { <<>> } \cup
    { <<TrackedAssignment(collection[n].id, Assignment(n, st))>> :
        n \in DOMAIN collection, st \in AssignedStates }

StateInit ==
    /\ name_to_meta = update_from_list(EmptyCollection, NestedFile).collection
    /\ out = DefaultOutcome
    /\ fresh = DefaultOutcome
    /\ last = Call("idle")
    /\ first_offer = <<>>
    /\ replay = FALSE
    /\ workers = <<>>
    /\ permission = NoPermission

StateSelect ==
    \E names \in MemberSelections : SelectCall(names)

StateFill ==
    \E attrs \in StateAttrLists(name_to_meta) :
        FillCall(attrs, MemberLine(attrs))

StateNext ==
    \/ Initialize
    \/ StateSelect
    \/ Reset
    \/ StateFill
    \/ Continue

StateSpec == StateInit /\ [][StateNext]_vars

----------------------------------------------------------------------------
(* Remote url schemes allowed by the configuration *)

\* the values of `allow` keys: the three settings and two that are none
AllowValues == {"always", "never", "user", "deny", "Always"}

\* the sections named `protocol` of a configuration: up to MaxSections, each
\* with a subsection name that is the scheme file or http or no scheme, and
\* with or without an `allow` key
MaxSections == 2
ProtocolSections ==
    [scheme : {None, Some("file"), Some("http")},
     allow  : {None} \cup {Some(v) : v \in AllowValues}]
Configs ==
    [general  : {None} \cup {Some(v) : v \in AllowValues},
     sections : SeqsUpTo(ProtocolSections, MaxSections)]

PermissionInit ==
    /\ name_to_meta = EmptyCollection
    /\ out = DefaultOutcome
    /\ fresh = DefaultOutcome
    /\ last = Call("idle")
    /\ first_offer = <<>>
    /\ replay = FALSE
    /\ workers = <<>>
    /\ permission = NoPermission

\* SchemePermission::from_config(config, ..), the only constructor
FromConfig ==
    /\ Idle
    /\ permission = NoPermission
    /\ \E config \in Configs :
        /\ permission' = from_config(config)
        /\ last' = Call("from_config")
        /\ UNCHANGED <<name_to_meta, out, fresh, first_offer, replay, workers>>

\* permission.allow(&scheme) on the value from_config returned
AllowScheme ==
    \E scheme \in Schemes :
        /\ Idle
        /\ permission.result = "ok"
        /\ last' = [Call("allow") EXCEPT !.names = <<scheme>>,
                                         !.ret = allow(permission, scheme)]
        /\ UNCHANGED <<name_to_meta, out, fresh, first_offer, replay, workers,
                       permission>>

\* allow.to_bool(user_allowed)
ToBool ==
    \E setting \in {"Always", "Never", "User"},
       user_allowed \in {None, Some(TRUE), Some(FALSE)} :
        /\ Idle
        /\ last' = [Call("to_bool") EXCEPT !.names = <<setting>>,
                                           !.found = user_allowed,
                                           !.ret = to_bool(setting, user_allowed)]
        /\ UNCHANGED <<name_to_meta, out, fresh, first_offer, replay, workers,
                       permission>>

PermissionNext ==
    \/ FromConfig
    \/ AllowScheme
    \/ ToBool
    \/ Continue

PermissionSpec == PermissionInit /\ [][PermissionNext]_vars

----------------------------------------------------------------------------
(* Reading the state *)

HandlesOf(o) == {i - 1 : i \in DOMAIN o.matches_by_id}
Resolved(o, h) == is_some(o.matches_by_id[h + 1].match)
MatchOf(o, h) == unwrap(o.matches_by_id[h + 1].match)
Snapshot(o, h) == o.matches_by_id[h + 1].macro_attributes
IsMacro(o, h) == Snapshot(o, h) # <<>>
Members(o, h) == {Snapshot(o, h)[k].id : k \in DOMAIN Snapshot(o, h)}
Named(attrs) == {attrs[k].id : k \in DOMAIN attrs}
Provenance(m) ==
    [pattern |-> m.pattern, source |-> m.location.source,
     sequence_number |-> m.location.sequence_number]

\* the call that has just returned
Filled == last.op = "fill_attributes"
LastLine ==
    [pattern |-> last.pattern, source |-> last.source,
     sequence_number |-> last.sequence_number]
NoDuplicates(s) == \A i, j \in DOMAIN s : s[i] = s[j] => i = j

\* the handles the countdown is about: every handle of the session, or the
\* handles of the selected names the registry knows
CountedHandles ==
    IF out.selected = <<>>
    THEN HandlesOf(out)
    ELSE {name_to_meta[n].id : n \in Range(selected_names(out)) \cap DOMAIN name_to_meta}

\* the summed lengths of the member snapshots of the handles in S
RECURSIVE FanOut(_, _)
FanOut(o, S) ==
    IF S = {} THEN 0
    ELSE LET h == CHOOSE x \in S : TRUE
         IN  Len(Snapshot(o, h)) + FanOut(o, S \ {h})

----------------------------------------------------------------------------
(* C1: first write wins *)

\* a slot that has a match keeps it across a fill_attributes call, and no call
\* writes a slot twice
WrittenAtMostOnce ==
    last'.op = "fill_attributes" =>
        /\ NoDuplicates(last'.written)
        /\ \A h \in HandlesOf(out) :
              Resolved(out, h) =>
                  out'.matches_by_id[h + 1].match = out.matches_by_id[h + 1].match

\* C1 as claimed: between two resets a slot is written at most once and never
\* changed, and the match a slot holds is of the first fill_attributes call
\* that named the attribute while its slot had no match.
C1_FirstCallWins ==
    [][ /\ WrittenAtMostOnce
        /\ \A h \in HandlesOf(out') :
              (is_some(first_offer'[h + 1]) /\ Resolved(out', h)) =>
                  Provenance(MatchOf(out', h)) = unwrap(first_offer'[h + 1]).line
      ]_vars

\* C1 as amended: between two resets a slot is written at most once and never
\* changed, and when the first fill_attributes call that named an attribute
\* while its slot had no match returned false, the slot holds a match of that
\* call (a call that returns true may leave an attribute it named unresolved).
C1_FirstCallWinsUnlessDone ==
    [][ /\ WrittenAtMostOnce
        /\ \A h \in HandlesOf(out') :
              (is_some(first_offer'[h + 1]) /\ ~unwrap(first_offer'[h + 1]).ret) =>
                  /\ Resolved(out', h)
                  /\ Provenance(MatchOf(out', h)) = unwrap(first_offer'[h + 1]).line
      ]_vars

\* a later line names an attribute again and the slot keeps the first line's match
C1_Witness ==
    /\ Filled
    /\ \E h \in Named(last.attrs) :
          /\ is_some(first_offer[h + 1])
          /\ ~unwrap(first_offer[h + 1]).ret
          /\ unwrap(first_offer[h + 1]).line # LastLine
          /\ Resolved(out, h)
          /\ Provenance(MatchOf(out, h)) = unwrap(first_offer[h + 1]).line

----------------------------------------------------------------------------
(* C2: early termination *)

\* C2: on an initialized session is_done() is true exactly when every counted
\* handle has a match, and fill_attributes returns true only then.
C2_DoneIffAllSelectedResolved ==
    is_some(out.remaining) =>
        /\ is_done(out) <=> \A h \in CountedHandles : Resolved(out, h)
        /\ (Filled /\ last.ret) => \A h \in CountedHandles : Resolved(out, h)

----------------------------------------------------------------------------
(* C3: the returned boolean *)

\* C3: on an initialized session fill_attributes returns true if and only if
\* is_done() holds when it returns, also when the session was done before the call.
C3_ReturnsDone ==
    (Filled /\ is_some(out.remaining)) => (last.ret <=> is_done(out))

----------------------------------------------------------------------------
(* C4: termination *)

\* C4: every fill_attributes call ends, writes no handle twice, and pops at
\* most as many entries as it was passed attrs plus the members of the macros
\* it wrote.
C4_TerminatesWithinFanOut ==
    Filled =>
        /\ last.terminated
        /\ NoDuplicates(last.written)
        /\ last.iterations <=
              Len(last.attrs)
              + FanOut(out, Range(last.written))

----------------------------------------------------------------------------
(* C5: macro expansion *)

\* the kind fill_attributes gives handle k when it is written for parent macro m
MemberKind(o, k, m) ==
    IF IsMacro(o, k) THEN KindMacro(Some(m)) ELSE KindAttribute(Some(m))

\* the macros a call names whose slot had no match when the call began
MatchedMacros(o, attrs) ==
    {m \in Named(attrs) : IsMacro(o, m) /\ ~Resolved(o, m)}

\* the members of macro m, other than m, whose slot has no match
UnresolvedMembers(o, m) ==
    {k \in Members(o, m) \ {m} : ~Resolved(o, k)}

\* C5 as claimed: a fill_attributes call that names an unresolved macro leaves
\* every member that was unresolved resolved, a plain member as
\* Attribute{Some(macro)} and a macro member as Macro{Some(macro)}, on
\* unselected sessions and under every selection.
C5_MacroExpansion ==
    [][ last'.op = "fill_attributes" =>
          \A m \in MatchedMacros(out, last'.attrs) :
              \A k \in UnresolvedMembers(out, m) :
                  /\ Resolved(out', k)
                  /\ MatchOf(out', k).kind = MemberKind(out, k, m)
      ]_vars

\* C5 as amended: on an unselected session, or when the call returns false, a
\* fill_attributes call that names an unresolved macro leaves every member that
\* was unresolved resolved; a member that the call's attrs do not name and that
\* no other macro written by the call lists is Attribute{Some(macro)} when
\* plain and Macro{Some(macro)} when itself a macro.
C5_MacroExpansionToTheEnd ==
    [][ (last'.op = "fill_attributes" /\ (out.selected = <<>> \/ ~last'.ret)) =>
          \A m \in MatchedMacros(out, last'.attrs) :
              \A k \in UnresolvedMembers(out, m) :
                  /\ Resolved(out', k)
                  /\ ( /\ k \notin Named(last'.attrs)
                       /\ \A p \in Range(last'.written) \ {m} : k \notin Members(out, p) )
                     => MatchOf(out', k).kind = MemberKind(out, k, m)
      ]_vars

\* a call that returned false has written a macro from its attrs and a member
\* of it that is itself a macro, linked to the first
C5_Witness ==
    /\ Filled
    /\ ~last.ret
    /\ \E m \in Named(last.attrs) \cap Range(last.written) :
          \E n \in (Members(out, m) \ {m}) \cap Range(last.written) :
              /\ IsMacro(out, n)
              /\ MatchOf(out, n).kind = KindMacro(Some(m))

----------------------------------------------------------------------------
(* C6: the text / binary / diff scenario *)

\* the registry of `*.txt text` and `[attr]binary -text -diff`
ScenarioRegistry == update_from_list(EmptyCollection, ScenarioFile).collection

\* the handle of a name of the registry
Handle(name) == name_to_meta[name].id

\* the selection that names all three attributes of the scenario
FullSelection == <<"text", "diff", "binary">>

\* the match a slot holds after line `call` wrote `assignment` with `kind`
LineMatch(call, assignment, kind) ==
    Match(call.pattern, assignment, kind, call.source, call.sequence_number)

----------------------------------------------------------------------------
(* C7: LIFO order, no double write *)

\* the call of this step lists two distinct unresolved attributes, x then y
ListsPair(x, y) ==
    /\ last'.op = "fill_attributes"
    /\ Len(last'.attrs) = 2
    /\ last'.attrs[1].id = x
    /\ last'.attrs[2].id = y
    /\ x # y
    /\ ~Resolved(out, x)
    /\ ~Resolved(out, y)

\* macro m lists a
HasMember(o, m, a) == IsMacro(o, m) /\ a \in Members(o, m)

\* the assignments macro m lists for a, and the one it lists last
MemberAssignments(o, m, a) ==
    {Snapshot(o, m)[k].inner : k \in {i \in DOMAIN Snapshot(o, m) : Snapshot(o, m)[i].id = a}}
LastMemberAssignment(o, m, a) ==
    LET ks == {i \in DOMAIN Snapshot(o, m) : Snapshot(o, m)[i].id = a}
    IN  Snapshot(o, m)[CHOOSE k \in ks : \A j \in ks : j <= k].inner

\* C7 as claimed: the attrs of a call are processed last listed first and no
\* attribute is recorded twice; a line [a, m] with a a member of macro m
\* records a with m's member assignment and link Some(m); a line [m, a]
\* records a with the line's own assignment and link None.
C7_LifoOrder ==
    [][ \A a, m \in HandlesOf(out) :
          /\ ListsPair(a, m) =>
                /\ NoDuplicates(last'.written)
                /\ last'.written # <<>> /\ last'.written[1] = m
          /\ (ListsPair(a, m) /\ HasMember(out, m, a)) =>
                /\ Resolved(out', a)
                /\ MatchOf(out', a).assignment \in MemberAssignments(out, m, a)
                /\ source_id(MatchOf(out', a).kind) = Some(m)
          /\ (ListsPair(m, a) /\ HasMember(out, m, a)) =>
                /\ Resolved(out', a)
                /\ MatchOf(out', a).assignment = last'.attrs[2].inner
                /\ source_id(MatchOf(out', a).kind) = None
      ]_vars

\* C7 as amended: the attrs of a call are processed last listed first and no
\* attribute is recorded twice; a line [m, a] with a a member of macro m
\* records a with the line's own assignment and link None; a line [a, m]
\* records a with the assignment m lists last for a and link Some(m) when the
\* session is unselected or the call returns false, and no other macro written
\* by the call lists a.
C7_LifoOrderToTheEnd ==
    [][ \A a, m \in HandlesOf(out) :
          /\ ListsPair(a, m) =>
                /\ NoDuplicates(last'.written)
                /\ last'.written # <<>> /\ last'.written[1] = m
          /\ ( /\ ListsPair(a, m) /\ HasMember(out, m, a)
               /\ out.selected = <<>> \/ ~last'.ret
               /\ \A p \in Range(last'.written) \ {m} : a \notin Members(out, p) ) =>
                /\ Resolved(out', a)
                /\ MatchOf(out', a).assignment = LastMemberAssignment(out, m, a)
                /\ source_id(MatchOf(out', a).kind) = Some(m)
          /\ (ListsPair(m, a) /\ HasMember(out, m, a)) =>
                /\ Resolved(out', a)
                /\ MatchOf(out', a).assignment = last'.attrs[2].inner
                /\ source_id(MatchOf(out', a).kind) = None
      ]_vars

\* a line [a, m] has been resolved: m was written first, then a for m with an
\* assignment that differs from the line's
C7_Witness ==
    /\ Filled
    /\ Len(last.attrs) = 2
    /\ Len(last.written) >= 2
    /\ last.written[1] = last.attrs[2].id
    /\ last.written[2] = last.attrs[1].id
    /\ HasMember(out, last.attrs[2].id, last.attrs[1].id)
    /\ source_id(MatchOf(out, last.attrs[1].id).kind) = Some(last.attrs[2].id)
    /\ MatchOf(out, last.attrs[1].id).assignment # last.attrs[1].inner

----------------------------------------------------------------------------
(* C8: idempotent replay *)

\* the session has been initialized with the registry
Initialized == Len(out.matches_by_id) = Cardinality(DOMAIN name_to_meta)

\* C8: whatever a session initialized with the registry went through before,
\* after reset() and any sequence of fill_attributes calls its slots and its
\* countdown equal those of a session built from Outcome::default(),
\* initialized with the same registry and selection and fed the same calls, and
\* each call returned the same value on both.
C8_ReplayEqualsFresh ==
    Initialized =>
        /\ out.matches_by_id = fresh.matches_by_id
        /\ out.remaining = fresh.remaining
        /\ Filled => last.ret = last.fresh_ret

\* a query that began with a reset() of a session with entries left on the
\* work stack has resolved a line
C8_Witness ==
    /\ replay
    /\ Filled
    /\ last.written # <<>>
    /\ out.matches_by_id = fresh.matches_by_id

----------------------------------------------------------------------------
(* C9: selection *)

\* the placeholder iter_selected yields for a name without a match
Placeholder(name) ==
    [pattern |-> "", assignment |-> [name |-> name, state |-> "Unspecified"],
     kind |-> [tag |-> "Attribute", macro_id |-> None],
     location |-> [source |-> None, sequence_number |-> 0]]

\* item is a placeholder: Unspecified, Attribute{None}, no source, sequence
\* number 0, the empty pattern, and the requested name when that is an
\* attribute name
IsPlaceholderFor(item, name) ==
    /\ item.assignment.state = "Unspecified"
    /\ item.kind = [tag |-> "Attribute", macro_id |-> None]
    /\ item.location = [source |-> None, sequence_number |-> 0]
    /\ item.pattern = ""
    /\ name \notin InvalidNames => item = Placeholder(name)

\* item is what iter_selected is to yield for a requested name on session o
IsItemFor(item, o, name) ==
    IF name \in DOMAIN name_to_meta /\ Resolved(o, Handle(name))
    THEN item = MatchOf(o, Handle(name))
    ELSE IsPlaceholderFor(item, name)

\* the number of requested names the registry knows
KnownCount(names) ==
    Cardinality({i \in DOMAIN names : names[i] \in DOMAIN name_to_meta})

\* C9: the session keeps the names passed to initialize_with_selection, in
\* their order, until the next initialize_with_selection; when names were
\* passed the countdown starts at the number of them the registry knows
\* (without names no selection is set); iter_selected yields one
\* item per name in that order, the slot's match when the name is known and
\* resolved and otherwise the placeholder (Unspecified, Attribute{None}, no
\* source, sequence number 0).
C9_SelectionItems ==
    [][ /\ last'.op = "initialize_with_selection" =>
              /\ selected_names(out') = last'.names
              /\ last'.names # <<>> => remaining(out') = KnownCount(last'.names)
        /\ last'.op # "initialize_with_selection" =>
              selected_names(out') = selected_names(out)
        /\ last'.op = "iter_selected" =>
              /\ Len(last'.items) = Len(selected_names(out))
              /\ \A i \in DOMAIN last'.items :
                    IsItemFor(last'.items[i], out, selected_names(out)[i])
      ]_vars

\* iter_selected has yielded a placeholder for an unknown name followed by the
\* match of a known, resolved name
C9_Witness ==
    /\ last.op = "iter_selected"
    /\ selected_names(out) = <<"eol", "text">>
    /\ "text" \in DOMAIN name_to_meta
    /\ Resolved(out, Handle("text"))
    /\ last.items = <<Placeholder("eol"), MatchOf(out, Handle("text"))>>

----------------------------------------------------------------------------
(* C10: the countdown *)

\* the counted handles that have no match before the step and one after it
NewlyResolvedCounted ==
    {h \in CountedHandles : ~Resolved(out, h) /\ Resolved(out', h)}

\* C10: on an initialized session a fill_attributes call lowers remaining() by
\* exactly the number of counted slots it resolved and never below 0, the
\* accessors leave it alone, and it grows only through reset(), initialize() or
\* initialize_with_selection().
C10_CountdownMonotone ==
    [][ is_some(out.remaining) =>
          /\ is_some(out'.remaining)
          /\ last'.op = "fill_attributes" =>
                /\ remaining(out') = remaining(out) - Cardinality(NewlyResolvedCounted)
                /\ remaining(out') >= 0
          /\ last'.op \in {"iter_selected", "remaining", "idle"} =>
                remaining(out') = remaining(out)
          /\ remaining(out') > remaining(out) =>
                last'.op \in {"reset", "initialize", "initialize_with_selection"}
      ]_vars

\* under a selection a call has resolved a counted and an uncounted handle and
\* left the countdown above 0
C10_Witness ==
    /\ Filled
    /\ out.selected # <<>>
    /\ Range(last.written) \cap CountedHandles # {}
    /\ Range(last.written) \ CountedHandles # {}
    /\ remaining(out) > 0

----------------------------------------------------------------------------
(* C11: the selection persists *)

\* the selection a call with `names` sets: each name with the handle the
\* registry has for it at that time
SelectionOf(names) ==
    [i \in DOMAIN names |->
        [name |-> names[i],
         id |-> IF names[i] \in DOMAIN name_to_meta
                THEN Some(name_to_meta[names[i]].id) ELSE None]]

\* the entries of the selection that hold a handle
HeldCount(o) == Cardinality({i \in DOMAIN o.selected : is_some(o.selected[i].id)})

\* the selection is set by initialize_with_selection and by nothing else
SelectionKept ==
    /\ last'.op = "initialize_with_selection" => out'.selected = SelectionOf(last'.names)
    /\ last'.op # "initialize_with_selection" => out'.selected = out.selected

\* C11 as claimed: the selection (names, order, handles) is set by
\* initialize_with_selection and left unchanged by reset(), initialize() and
\* fill_attributes; reset() of a session initialized with the registry
\* recomputes the countdown of a selection to the number of selected names the
\* registry knows.
C11_SelectionPersists ==
    [][ /\ SelectionKept
        /\ (last'.op = "reset" /\ out.selected # <<>> /\ Initialized) =>
              remaining(out') = KnownCount(selected_names(out'))
      ]_vars

\* C11 as amended: the selection (names, order, handles) is set by
\* initialize_with_selection and left unchanged by reset(), initialize() and
\* fill_attributes; reset() recomputes the countdown of a selection to the
\* number of its entries that hold a handle, which are the names the registry
\* knew when the selection was set.
C11_SelectionPersistsWithItsHandles ==
    [][ /\ SelectionKept
        /\ (last'.op = "reset" /\ out.selected # <<>>) =>
              remaining(out') = HeldCount(out)
      ]_vars

\* reset() of a session whose selection names an attribute the registry has
\* learnt since the selection was set
C11_Witness ==
    /\ last.op = "reset"
    /\ Initialized
    /\ \E i \in DOMAIN out.selected :
          is_none(out.selected[i].id) /\ out.selected[i].name \in DOMAIN name_to_meta
    /\ remaining(out) = HeldCount(out)

----------------------------------------------------------------------------
(* C12: the size of the slot array *)

\* the call of this step is one of the two initializers
Initializes == last'.op \in {"initialize", "initialize_with_selection"}

\* C12: after initialize (alone or within initialize_with_selection) the
\* session has as many slots as the registry has names, and no call on the
\* session or on the registry lowers the number of slots.
C12_SlotsFollowRegistry ==
    [][ /\ Initializes =>
              Len(out'.matches_by_id) = Cardinality(DOMAIN name_to_meta')
        /\ Len(out'.matches_by_id) >= Len(out.matches_by_id)
      ]_vars

\* initialize has grown the slots of a session that was initialized before the
\* registry learnt a name it had selected
C12_Witness ==
    /\ last.op = "initialize"
    /\ Len(out.matches_by_id) = Cardinality(DOMAIN name_to_meta)
    /\ \E i \in DOMAIN out.selected :
          /\ is_none(out.selected[i].id)
          /\ out.selected[i].name \in DOMAIN name_to_meta
          /\ name_to_meta[out.selected[i].name].id = Len(out.matches_by_id) - 1

----------------------------------------------------------------------------
(* C13: the member snapshots *)

\* C13: after initialize (alone or within initialize_with_selection) the
\* member snapshot of every slot equals the member list the registry holds for
\* that handle, empty for a plain attribute, also when a macro was declared
\* again over known names since the previous initialize.
C13_SnapshotsFresh ==
    [][ Initializes =>
          \A n \in DOMAIN name_to_meta' :
              Snapshot(out', name_to_meta'[n].id) = name_to_meta'[n].macro_attributes
      ]_vars

----------------------------------------------------------------------------
(* C17: remaining() and is_done() need an initialized session *)

\* the operations that initialize a session
InitOps == {"initialize", "initialize_with_selection", "reset"}

\* C17: remaining()/is_done() abort on a session as Outcome::default() made
\* it, and keep aborting until initialize, initialize_with_selection or reset
\* is called; after such a call they succeed, and they go on succeeding
\* whatever is called afterwards; a call reports the abort and nothing else.
C17_AbortsUntilInitialized ==
    [][ /\ out = DefaultOutcome => remaining_aborts(out)
        /\ (remaining_aborts(out) /\ last'.op \notin InitOps) => remaining_aborts(out')
        /\ last'.op \in InitOps => ~remaining_aborts(out')
        /\ ~remaining_aborts(out) => ~remaining_aborts(out')
        /\ last'.op = "remaining" =>
              /\ last'.aborted = remaining_aborts(out)
              /\ ~last'.aborted =>
                    /\ last'.count = unwrap(out.remaining)
                    /\ last'.ret = (last'.count = 0)
      ]_vars

\* remaining() has been called on a session that was never initialized, and
\* has aborted
C17_Witness ==
    /\ last.op = "remaining"
    /\ last.aborted
    /\ out = DefaultOutcome

----------------------------------------------------------------------------
(* C18: match_by_id *)

\* C18: match_by_id(id) returns the match of slot id when the session has
\* that slot and it is resolved, and None, without aborting, when the slot has
\* no match or the session has no such slot.
C18_MatchByIdOrNone ==
    last.op = "match_by_id" =>
        /\ ~last.aborted
        /\ last.found =
              IF last.id \in HandlesOf(out) /\ Resolved(out, last.id)
              THEN Some(MatchOf(out, last.id))
              ELSE None

\* match_by_id has been asked for the handle of a name the registry learnt
\* after the session was initialized, and returned None
C18_Witness ==
    /\ last.op = "match_by_id"
    /\ "eol" \in DOMAIN name_to_meta
    /\ last.id = name_to_meta["eol"].id
    /\ out.matches_by_id # <<>>
    /\ Resolved(out, 0)
    /\ last.id >= Len(out.matches_by_id)
    /\ last.found = None

----------------------------------------------------------------------------
(* C19: iter *)

\* the resolved handles of session o, and the place of handle h among them
ResolvedHandles(o) == {h \in HandlesOf(o) : Resolved(o, h)}
Rank(o, h) == Cardinality({k \in ResolvedHandles(o) : k <= h})

\* C19: iter() leaves the session as it is and yields the matches of the
\* resolved slots, each once, in ascending handle order; what it yields is
\* fixed by the slots, so two calls without a mutation between yield the same.
C19_IterAscending ==
    [][ last'.op = "iter" =>
          /\ out' = out
          /\ Len(last'.items) = Cardinality(ResolvedHandles(out))
          /\ \A h \in ResolvedHandles(out) :
                last'.items[Rank(out, h)] = MatchOf(out, h)
      ]_vars

\* iter has yielded two matches of a session that has an unresolved slot
\* before them
C19_Witness ==
    /\ last.op = "iter"
    /\ Len(last.items) = 2
    /\ last.items[1] # last.items[2]
    /\ out.matches_by_id # <<>>
    /\ ~Resolved(out, 0)

----------------------------------------------------------------------------
(* C20: the kind and the location of a written match *)

\* the handles the call of this step has written
NewlyWritten == {h \in HandlesOf(out) : ~Resolved(out, h) /\ Resolved(out', h)}

\* C20: a match written by fill_attributes is a Macro exactly when the slot's
\* member snapshot is not empty; its link is None only for an attribute a
\* call of the query named in its attrs, and otherwise Some(m) for a macro m
\* that has a match and lists the attribute itself; it carries the pattern,
\* source and sequence number of the call that wrote it.
C20_KindLinkLocation ==
    [][ last'.op = "fill_attributes" =>
          \A h \in NewlyWritten :
              LET m == MatchOf(out', h)
                  link == source_id(m.kind)
              IN  /\ m.kind.tag = IF IsMacro(out, h) THEN "Macro" ELSE "Attribute"
                  /\ is_none(link) => is_some(first_offer'[h + 1])
                  /\ is_some(link) =>
                        /\ unwrap(link) \in ResolvedHandles(out')
                        /\ HasMember(out, unwrap(link), h)
                  /\ Provenance(m) =
                        [pattern |-> last'.pattern, source |-> last'.source,
                         sequence_number |-> last'.sequence_number]
      ]_vars

\* a call has written a macro from its attrs, a macro it lists and an
\* attribute only the inner macro lists, linked to the inner macro
C20_Witness ==
    /\ Filled
    /\ \E r, m, h \in Range(last.written) :
          /\ r \in Named(last.attrs)
          /\ MatchOf(out, r).kind = KindMacro(None)
          /\ MatchOf(out, m).kind = KindMacro(Some(r))
          /\ MatchOf(out, h).kind = KindAttribute(Some(m))
          /\ ~HasMember(out, r, h)

----------------------------------------------------------------------------
(* C14: handle allocation *)

\* the handles of a registry are exactly 0 .. size-1, one per name
Bijective(collection) ==
    /\ {collection[n].id : n \in DOMAIN collection}
         = 0 .. (Cardinality(DOMAIN collection) - 1)
    /\ \A n1, n2 \in DOMAIN collection :
           collection[n1].id = collection[n2].id => n1 = n2

\* every name known before the step is known after it, under the same handle
HandlesStable ==
    \A n \in DOMAIN name_to_meta :
        /\ n \in DOMAIN name_to_meta'
        /\ name_to_meta'[n].id = name_to_meta[n].id

\* C14: after any sequence of id_for_attribute, id_for_macro,
\* assign_order_to_attributes and update_from_list the handles map the known
\* names one-to-one onto 0 .. size-1; id_for_attribute returns the existing
\* handle of a known name and otherwise the size before the call, storing an
\* empty member list; no step changes the handle of a known name.
C14_HandleAllocation ==
    [][ /\ Bijective(name_to_meta')
        /\ HandlesStable
        /\ last'.op = "id_for_attribute" =>
              LET name == last'.names[1]
              IN  /\ name_to_meta'[name].id = last'.id
                  /\ IF name \in DOMAIN name_to_meta
                     THEN /\ last'.id = name_to_meta[name].id
                          /\ name_to_meta' = name_to_meta
                     ELSE /\ last'.id = Cardinality(DOMAIN name_to_meta)
                          /\ name_to_meta'[name].macro_attributes = <<>> ]_vars

\* id_for_attribute was asked for a known name in a registry of three names
\* one of which is a macro
C14_Witness ==
    /\ last.op = "id_for_attribute"
    /\ last.id < last.count
    /\ Cardinality(DOMAIN name_to_meta) = 3
    /\ \E n \in DOMAIN name_to_meta : name_to_meta[n].macro_attributes # <<>>

----------------------------------------------------------------------------
(* C15: macro declaration *)

\* C15: id_for_macro(name, members) returns the existing handle of a known
\* name and otherwise the next ordinal, and replaces the member list stored
\* for the name by the given members, each carrying the registry handle of its
\* name; every member name is known afterwards; the member lists of the other
\* names are unchanged.
C15_MacroDeclaration ==
    [][ last'.op = "id_for_macro" =>
          LET name    == last'.names[1]
              members == name_to_meta'[name].macro_attributes
          IN  /\ last'.id = IF name \in DOMAIN name_to_meta
                            THEN name_to_meta[name].id
                            ELSE Cardinality(DOMAIN name_to_meta)
              /\ name_to_meta'[name].id = last'.id
              /\ Len(members) = Len(last'.attrs)
              /\ members = last'.items
              /\ \A k \in 1..Len(members) :
                    /\ members[k].inner = last'.attrs[k].inner
                    /\ members[k].inner.name \in DOMAIN name_to_meta'
                    /\ members[k].id = name_to_meta'[members[k].inner.name].id
              /\ \A n \in DOMAIN name_to_meta :
                    n # name =>
                      name_to_meta'[n].macro_attributes
                        = name_to_meta[n].macro_attributes ]_vars

\* a known name was declared a macro of two members, one of them the macro
\* itself, in a registry that holds another macro
C15_Witness ==
    /\ last.op = "id_for_macro"
    /\ last.id < last.count
    /\ Len(last.attrs) = 2
    /\ \E k \in 1..2 : last.attrs[k].inner.name = last.names[1]
    /\ \E n \in DOMAIN name_to_meta :
          n # last.names[1] /\ name_to_meta[n].macro_attributes # <<>>

----------------------------------------------------------------------------
(* C16: session isolation under concurrency *)

\* C16: with the registry frozen, in every interleaving of the statements of
\* the calls of two sessions no step changes the registry, no step changes
\* more than one session, and whenever a session is between two calls its
\* state (slots, countdown, selection, work stack) and the value its last call
\* returned are those its own calls give when each runs from start to end
\* without interruption.
C16_SessionIsolation ==
    [][ /\ name_to_meta' = name_to_meta
        /\ \A w, v \in Workers :
              w # v => workers'[w] = workers[w] \/ workers'[v] = workers[v]
        /\ \A w \in Workers :
              workers'[w].pc = "idle" =>
                /\ workers'[w].session = workers'[w].alone
                /\ workers'[w].ret = workers'[w].alone_ret ]_vars

\* worker a has returned true from fill_attributes for its selection while
\* worker b, with another selection and a match already written, is inside
\* the loop of its own fill_attributes call
C16_Witness ==
    /\ workers["a"].pc = "idle"
    /\ workers["a"].call.op = "fill_attributes"
    /\ workers["a"].ret.value
    /\ workers["b"].pc = "loop"
    /\ workers["b"].session.attrs_stack # <<>>
    /\ \E i \in DOMAIN workers["b"].session.matches_by_id :
          is_some(workers["b"].session.matches_by_id[i].match)
    /\ workers["a"].session.selected # workers["b"].session.selected
    /\ workers["b"].session.selected # <<>>

----------------------------------------------------------------------------
(* C21: entries left on the work stack *)

\* the handles reached from the macros in S through member snapshots, in at
\* most n expansions
RECURSIVE MembersWithin(_, _, _)
MembersWithin(o, S, n) ==
    IF n = 0 THEN {}
    ELSE LET direct == UNION {Members(o, m) : m \in {x \in S : IsMacro(o, x)}}
         IN  direct \cup MembersWithin(o, direct, n - 1)

\* the transitive members of the macros in S
TransitiveMembers(o, S) == MembersWithin(o, S, Len(o.matches_by_id))

\* C21: every slot a fill_attributes call writes is named in the attrs of that
\* call or is a transitive member of a macro the same call wrote, and its
\* match carries the pattern, source and sequence number of that call; the
\* work stack is empty whenever the call returns false.
C21_LeftoversStayUnresolved ==
    [][ last'.op = "fill_attributes" =>
          /\ \A h \in NewlyWritten :
                /\ \/ h \in Named(last'.attrs)
                   \/ h \in TransitiveMembers(out, NewlyWritten)
                /\ Provenance(MatchOf(out', h))
                     = [pattern |-> last'.pattern, source |-> last'.source,
                        sequence_number |-> last'.sequence_number]
          /\ ~last'.ret => out'.attrs_stack = <<>>
      ]_vars

----------------------------------------------------------------------------
(* C22: the effect of reset *)

\* C22: reset() leaves every slot without a match and the work stack empty,
\* sets the countdown to the slot count when the selection is empty and
\* otherwise to the number of selection entries that hold a handle, and keeps
\* the slot count, every member snapshot and the selection.
C22_ResetEffect ==
    [][ last'.op = "reset" =>
          /\ \A h \in HandlesOf(out') : ~Resolved(out', h)
          /\ out'.attrs_stack = <<>>
          /\ out'.remaining =
                Some(IF out.selected = <<>>
                     THEN Len(out.matches_by_id)
                     ELSE Cardinality({i \in DOMAIN out.selected :
                                         is_some(out.selected[i].id)}))
          /\ Len(out'.matches_by_id) = Len(out.matches_by_id)
          /\ \A h \in HandlesOf(out) : Snapshot(out', h) = Snapshot(out, h)
          /\ out'.selected = out.selected
      ]_vars

\* reset() has emptied a work stack that held entries, on a session with a
\* macro snapshot and a selection of a known and an unknown name
C22_Witness ==
    /\ last.op = "reset"
    /\ last.count > 0
    /\ \E h \in HandlesOf(out) : IsMacro(out, h)
    /\ \E i, j \in DOMAIN out.selected :
          is_some(out.selected[i].id) /\ is_none(out.selected[j].id)

----------------------------------------------------------------------------
(* C23: update_from_list accumulates one namespace *)

\* the processed list is the attribute file `file` with handles filled in
ProcessedFrom(list, file) ==
    /\ Len(list) = Len(file)
    /\ \A k \in DOMAIN list :
          /\ list[k].pattern = file[k].pattern
          /\ list[k].value.tag = file[k].value.tag
          /\ Len(list[k].value.assignments) = Len(file[k].value.assignments)
          /\ \A j \in DOMAIN list[k].value.assignments :
                list[k].value.assignments[j].inner = file[k].value.assignments[j].inner

\* C23: update_from_list, called on any sequence of lists, leaves in the
\* processed list every assignment (of a plain line and of a macro line) with
\* the handle the registry holds for its name and every macro line with the
\* handle of its pattern text; no step changes the handle of a known name, so
\* a name has one handle in all lists processed.
C23_AccumulatingNamespace ==
    [][ /\ HandlesStable
        /\ last'.op = "update_from_list" =>
              /\ \E file \in SetupFiles : ProcessedFrom(last'.items, file)
              /\ \A k \in DOMAIN last'.items :
                    LET value == last'.items[k].value
                    IN  /\ \A j \in DOMAIN value.assignments :
                              LET name == value.assignments[j].inner.name
                              IN  /\ name \in DOMAIN name_to_meta'
                                  /\ value.assignments[j].id = name_to_meta'[name].id
                        /\ value.tag = "MacroAssignments" =>
                              /\ last'.items[k].pattern \in DOMAIN name_to_meta'
                              /\ value.id = name_to_meta'[last'.items[k].pattern].id
      ]_vars

\* a list was processed by a registry that knew names of another list: a
\* macro line got the handle its name had before, which is not the first one,
\* and a member got a handle allocated by this call
C23_Witness ==
    /\ last.op = "update_from_list"
    /\ \E k \in DOMAIN last.items :
          /\ last.items[k].value.tag = "MacroAssignments"
          /\ last.items[k].value.id > 0
          /\ last.items[k].value.id < last.count
          /\ \E j \in DOMAIN last.items[k].value.assignments :
                last.items[k].value.assignments[j].id >= last.count

----------------------------------------------------------------------------
(* C24: assign_order_to_attributes is idempotent *)

\* C24: a second assign_order_to_attributes on a member list, as the first
\* call left it or as it was parsed, leaves the registry (names, handles,
\* member lists) as the first call left it and gives every member the id the
\* first call gave it; members with one name have one id.
C24_AssignOrderIdempotent ==
    [][ last'.op = "assign_order_to_attributes" =>
          LET again  == assign_order_to_attributes(name_to_meta', last'.items)
              parsed == assign_order_to_attributes(name_to_meta', last'.attrs)
          IN  /\ again.collection = name_to_meta'
              /\ again.attributes = last'.items
              /\ parsed.collection = name_to_meta'
              /\ parsed.attributes = last'.items
              /\ \A i, j \in DOMAIN last'.items :
                    last'.items[i].inner.name = last'.items[j].inner.name
                      => last'.items[i].id = last'.items[j].id
      ]_vars

\* the call got a list that names one new attribute twice, after another
\* attribute, in a registry that holds a macro
C24_Witness ==
    /\ last.op = "assign_order_to_attributes"
    /\ Len(last.items) = 2
    /\ last.items[1].inner.name = last.items[2].inner.name
    /\ last.items[1].id >= last.count
    /\ last.count > 0
    /\ \E n \in DOMAIN name_to_meta : name_to_meta[n].macro_attributes # <<>>

----------------------------------------------------------------------------
(* C25: no failure on an initialized session *)

\* C25: on a session initialized with the registry no call fails: every
\* handle of the registry is the index of a slot, the countdown is set (the
\* expect() of remaining and of reduce_and_check_if_done pass), no accessor
\* aborts, every fill_attributes call ends, and the countdown was greater
\* than 0 at every decrement (a decrement of 0 would leave it below 0).
C25_NoFailure ==
    Initialized =>
        /\ \A n \in DOMAIN name_to_meta : name_to_meta[n].id \in HandlesOf(out)
        /\ \A h \in HandlesOf(out) : Members(out, h) \subseteq HandlesOf(out)
        /\ \A k \in DOMAIN out.attrs_stack : out.attrs_stack[k].id \in HandlesOf(out)
        /\ is_some(out.remaining)
        /\ remaining(out) >= 0
        /\ ~last.aborted
        /\ Filled => last.terminated

\* fill_attributes has written a slot on a session whose selection holds no
\* handle, a session that was done before the call began
C25_Witness ==
    /\ Initialized
    /\ Filled
    /\ out.selected # <<>>
    /\ HeldCount(out) = 0
    /\ last.written # <<>>
    /\ last.ret
    /\ remaining(out) = 0

----------------------------------------------------------------------------
(* C26: the chain of enclosing macros *)

\* following the enclosing-macro links from the match of h reaches a match
\* without link in at most n steps
RECURSIVE ChainEnds(_, _, _)
ChainEnds(o, h, n) ==
    /\ Resolved(o, h)
    /\ LET link == source_id(MatchOf(o, h).kind)
       IN  \/ is_none(link)
           \/ n > 0 /\ ChainEnds(o, unwrap(link), n - 1)

\* C26: in every state of a session, a match with link Some(m) has slot m
\* resolved as a Macro whose member snapshot lists the handle, both matches
\* carry one pattern, source and sequence number, and the links from any
\* match end at a match without link.
C26_ProvenanceChain ==
    \A h \in HandlesOf(out) :
        Resolved(out, h) =>
            /\ ChainEnds(out, h, Len(out.matches_by_id))
            /\ LET link == source_id(MatchOf(out, h).kind)
               IN  is_some(link) =>
                     LET m == unwrap(link)
                     IN  /\ Resolved(out, m)
                         /\ MatchOf(out, m).kind.tag = "Macro"
                         /\ HasMember(out, m, h)
                         /\ Provenance(MatchOf(out, m)) = Provenance(MatchOf(out, h))

----------------------------------------------------------------------------
(* C27: an attribute named more than once in one list *)

\* the positions of list `attrs` that name handle a, and the assignment at
\* the last of them
Listings(attrs, a) == {k \in DOMAIN attrs : attrs[k].id = a}
LastListed(attrs, a) ==
    attrs[CHOOSE k \in Listings(attrs, a) : \A j \in Listings(attrs, a) : j <= k].inner

\* C27 as claimed: when the attrs of a call, or the member list of a macro
\* the call writes, name an attribute more than once and the call writes
\* that attribute, the assignment recorded is the one the list names last.
C27_LastListedWins ==
    [][ last'.op = "fill_attributes" =>
          \A a \in NewlyWritten :
              /\ Cardinality(Listings(last'.attrs, a)) > 1 =>
                    MatchOf(out', a).assignment = LastListed(last'.attrs, a)
              /\ \A m \in NewlyWritten :
                    Cardinality(Listings(Snapshot(out, m), a)) > 1 =>
                        MatchOf(out', a).assignment = LastListed(Snapshot(out, m), a)
      ]_vars

\* C27, per list: no handle is written twice by a call; an attribute written
\* without enclosing macro that the attrs name more than once gets the
\* assignment the attrs name last, and an attribute written with enclosing
\* macro m, written by the same call, that m lists more than once gets the
\* assignment m lists last.
C27_LastListedWinsPerList ==
    [][ last'.op = "fill_attributes" =>
          /\ NoDuplicates(last'.written)
          /\ \A a \in NewlyWritten :
                LET link == source_id(MatchOf(out', a).kind)
                IN  /\ (is_none(link) /\ Cardinality(Listings(last'.attrs, a)) > 1) =>
                          MatchOf(out', a).assignment = LastListed(last'.attrs, a)
                    /\ \A m \in NewlyWritten :
                          ( /\ link = Some(m)
                            /\ Cardinality(Listings(Snapshot(out, m), a)) > 1 ) =>
                              MatchOf(out', a).assignment
                                = LastListed(Snapshot(out, m), a)
      ]_vars

\* a call whose attrs set and then unset one attribute has recorded it unset
C27_Witness ==
    /\ Filled
    /\ \E a \in Range(last.written) :
          /\ Cardinality(Listings(last.attrs, a)) > 1
          /\ \E k \in Listings(last.attrs, a) :
                last.attrs[k].inner # LastListed(last.attrs, a)
          /\ MatchOf(out, a).kind = KindAttribute(None)
          /\ MatchOf(out, a).assignment = LastListed(last.attrs, a)

----------------------------------------------------------------------------
(* C28: expansion does not depend on the state given to the macro *)

\* the position of handle h among the handles the call wrote
WrittenAt(h) == CHOOSE k \in DOMAIN last'.written : last'.written[k] = h

\* the members of macro m, other than m, that had no match when the call
\* wrote m
UnresolvedWhenWritten(m) ==
    {k \in UnresolvedMembers(out, m) :
        k \in Range(last'.written) => WrittenAt(k) > WrittenAt(m)}

\* the call returned at the write of m
ReturnedAt(m) ==
    last'.ret /\ last'.written[Len(last'.written)] = m

\* C28 as claimed: whenever a call writes the slot of a macro, with whatever
\* state the line gives the macro, and does not return at that write, every
\* member that was unresolved then is resolved with the assignment the
\* macro's member snapshot stores for it.
C28_ExpansionIgnoresLineState ==
    [][ last'.op = "fill_attributes" =>
          \A m \in {h \in NewlyWritten : IsMacro(out, h)} :
              ~ReturnedAt(m) =>
                  \A k \in UnresolvedWhenWritten(m) :
                      /\ Resolved(out', k)
                      /\ MatchOf(out', k).assignment = LastListed(Snapshot(out, m), k)
      ]_vars

\* C28, per member: a member a call writes with enclosing macro m gets the
\* assignment the member snapshot of m lists for it last, whatever state the
\* line gave m; and when the call returns false every member that was
\* unresolved when its macro was written is resolved.
C28_MembersTakeSnapshotAssignment ==
    [][ last'.op = "fill_attributes" =>
          /\ \A k \in NewlyWritten :
                LET link == source_id(MatchOf(out', k).kind)
                IN  is_some(link) =>
                      /\ HasMember(out, unwrap(link), k)
                      /\ MatchOf(out', k).assignment
                           = LastListed(Snapshot(out, unwrap(link)), k)
          /\ ~last'.ret =>
                \A m \in {h \in NewlyWritten : IsMacro(out, h)} :
                    \A k \in UnresolvedWhenWritten(m) : Resolved(out', k)
      ]_vars

\* a line has unset a macro, and a member of it is recorded as the macro's
\* member list sets it
C28_Witness ==
    /\ Filled
    /\ \E m, k \in Range(last.written) :
          /\ m \in Named(last.attrs)
          /\ MatchOf(out, m).kind = KindMacro(None)
          /\ MatchOf(out, m).assignment.state = "Unset"
          /\ source_id(MatchOf(out, k).kind) = Some(m)
          /\ MatchOf(out, k).assignment.state = "Set"

----------------------------------------------------------------------------
(* C29: the schemes a configuration allows *)

\* the `allow` values of the sections of `config` for `scheme`, in file order
SchemeValues(config, scheme) ==
    SelectSeq(config.sections,
              LAMBDA section : section.scheme = Some(scheme) /\ is_some(section.allow))

\* the setting that decides `scheme`: the one of its sections (the last, if
\* several), else the general one, else none
DecidingSetting(config, scheme) ==
    LET own == SchemeValues(config, scheme)
    IN  IF own # <<>> THEN own[Len(own)].allow ELSE config.general

\* the `allow` values from_config reads: the general one and those of the
\* sections of a scheme
ValuesRead(config) ==
    (IF is_some(config.general) THEN {unwrap(config.general)} ELSE {})
    \cup {unwrap(config.sections[k].allow) :
            k \in {i \in DOMAIN config.sections :
                      /\ is_some(config.sections[i].scheme)
                      /\ is_some(config.sections[i].allow)}}

============================================================================
